---- MODULE Spec2Model ----
(***************************************************************************)
(* The REST/storage layer of the health-tracking backend: the route       *)
(* handlers of registerRoutes, the DatabaseStorage methods behind them,   *)
(* the insert schemas and table declarations they rely on, and the two    *)
(* AI analysis collaborators.                                              *)
(*                                                                         *)
(* Every handler is an async function with exactly one await.  It is      *)
(* modelled in two steps: the synchronous part up to the await (one       *)
(* action per route) and the continuation after the awaited call settled  *)
(* (Respond).  Between the two, the database executes the single SQL      *)
(* statement of the storage method atomically (DbExecute), or the AI      *)
(* provider answers (AiExecute).                                           *)
(***************************************************************************)
EXTENDS Integers, Sequences, FiniteSets, TLC

(***************************************************************************)
(* Bounds of the model.                                                    *)
(***************************************************************************)
\* requests accepted in one run of the full specification
MaxRequests == 1
\* requests that may be in flight at once in the full specification
MaxInFlight == 1
\* the same two bounds for the per-entity specifications
MaxEntityRequests == 2
MaxEntityInFlight == 2
\* more rows per user than either default cap
ManyFoodEntries == 52
ManyHRVRecords == 102

(***************************************************************************)
(* Values.  JSON values of request bodies are tokens: a JSON number is    *)
(* written as its digits, a JSON string between single quotes.             *)
(***************************************************************************)
Undefined == "undefined"
NULL == "NULL"
JsonNumbers == {"30", "40", "60", "200"}
JsonStrings == {"'u1'", "'F'", "'old'", "'toast'", "'many'", "'fast'", "'scan'",
                "'lab'", "'/f.pdf'", "'hello'", "'2024-01-02'", "'img'", "''",
                "'scheduled'", "'completed'", "'cancelled'", "'rescheduled'",
                "'bogus'", "'u2'", "'u3'"}

\* req.userId stamped by the mock authentication middleware
requireAuth == "'u1'"
OtherUserId == "'u2'"
DoctorId == "'u3'"
\* rows of the users table; no route writes it
users == {requireAuth, OtherUserId, DoctorId}

\* pgEnum('appointment_status', ...)
appointmentStatusEnum == {"'scheduled'", "'completed'", "'cancelled'", "'rescheduled'"}

\* JavaScript truthiness of a body field: undefined, null and "" are falsy
Truthy(v) == v \notin {Undefined, NULL, "''"}

(***************************************************************************)
(* Query-string and path parameters are strings, modelled as sequences of *)
(* characters, because the handlers test them for truthiness and parse    *)
(* them with parseInt and new Date.                                        *)
(***************************************************************************)
NoParam == <<"undefined">>
Digits == {"0", "1", "2", "3", "4", "5", "6", "7", "8", "9"}
DigitValue(c) ==
    CASE c = "0" -> 0 [] c = "1" -> 1 [] c = "2" -> 2 [] c = "3" -> 3
      [] c = "4" -> 4 [] c = "5" -> 5 [] c = "6" -> 6 [] c = "7" -> 7
      [] c = "8" -> 8 [] c = "9" -> 9

\* `req.query.x ? ... : ...` : a missing parameter and "" are falsy
TruthyParam(s) == s # NoParam /\ s # <<>>

RECURSIVE LeadingDigits(_)
LeadingDigits(s) ==
    IF s = <<>> \/ Head(s) \notin Digits THEN <<>>
    ELSE <<Head(s)>> \o LeadingDigits(Tail(s))

RECURSIVE DigitsValue(_, _)
DigitsValue(ds, acc) ==
    IF ds = <<>> THEN acc ELSE DigitsValue(Tail(ds), 10 * acc + DigitValue(Head(ds)))

\* parseInt(string): optional sign, then the longest prefix of digits;
\* NaN when there is no digit
parseInt(s) ==
    LET neg == s # <<>> /\ Head(s) = "-"
        rest == IF s # <<>> /\ Head(s) \in {"-", "+"} THEN Tail(s) ELSE s
        ds == LeadingDigits(rest)
    IN IF ds = <<>> THEN [nan |-> TRUE, val |-> 0]
       ELSE [nan |-> FALSE,
             val |-> IF neg THEN 0 - DigitsValue(ds, 0) ELSE DigitsValue(ds, 0)]

\* new Date(string) of a query parameter: "d<k>" stands for the ISO date of
\* day k; anything else gives an Invalid Date (NaN time value)
NewDate(s) ==
    IF Len(s) >= 2 /\ Head(s) = "d" /\ LeadingDigits(Tail(s)) = Tail(s)
    THEN [nan |-> FALSE, val |-> DigitsValue(Tail(s), 0)]
    ELSE [nan |-> TRUE, val |-> 0]

\* a message built by string concatenation is the sequence of its parts
Msg(text) == <<text>>

(***************************************************************************)
(* The database.  One variable per table the routes touch, holding the    *)
(* set of its rows; serial holds the next value of each table's id        *)
(* sequence and now the database clock behind defaultNow().               *)
(***************************************************************************)
VARIABLES userProfiles, foodEntries, hrvData, appointments, medicalDocuments,
          aiConversations, serial, now,
          inflight, last, before, nreq, answered, stmts

tables == <<userProfiles, foodEntries, hrvData, appointments, medicalDocuments,
            aiConversations, serial, now>>
vars == <<userProfiles, foodEntries, hrvData, appointments, medicalDocuments,
          aiConversations, serial, now, inflight, last, before, nreq, answered,
          stmts>>

\* the database as one value, for the storage methods to read and return
DB == [userProfiles |-> userProfiles, foodEntries |-> foodEntries,
       hrvData |-> hrvData, appointments |-> appointments,
       medicalDocuments |-> medicalDocuments,
       aiConversations |-> aiConversations, serial |-> serial]

TableNames == {"user_profiles", "food_entries", "hrv_data", "appointments",
               "medical_documents", "ai_conversations"}

\* user_profiles.user_id is declared .references(...).notNull() and nothing
\* else: the table has no unique index on user_id
UserProfilesUserIdUnique == FALSE

EmptyDB == [userProfiles |-> {}, foodEntries |-> {}, hrvData |-> {},
            appointments |-> {}, medicalDocuments |-> {}, aiConversations |-> {},
            serial |-> [t \in TableNames |-> 1]]

\* A database that has been in use: rows of the authenticated user and of
\* another user in every list table (users, and therefore the rows that
\* reference them, are provisioned outside these routes)
UsedDB ==
    [userProfiles |-> {},
     foodEntries |->
        {[id |-> 1, userId |-> requireAuth, timestamp |-> 1,
          description |-> "'toast'", calories |-> "200"],
         [id |-> 2, userId |-> OtherUserId, timestamp |-> 2,
          description |-> "'toast'", calories |-> NULL],
         [id |-> 3, userId |-> requireAuth, timestamp |-> 2,
          description |-> NULL, calories |-> NULL]},
     hrvData |->
        {[id |-> 1, userId |-> requireAuth, timestamp |-> 1, heartRate |-> "60"],
         [id |-> 2, userId |-> OtherUserId, timestamp |-> 2, heartRate |-> "60"],
         [id |-> 3, userId |-> requireAuth, timestamp |-> 2, heartRate |-> NULL]},
     appointments |->
        {[id |-> 1, patientId |-> requireAuth, doctorId |-> DoctorId,
          appointmentDate |-> 1, status |-> "'scheduled'", updatedAt |-> 1],
         [id |-> 2, patientId |-> OtherUserId, doctorId |-> DoctorId,
          appointmentDate |-> 2, status |-> "'scheduled'", updatedAt |-> 1]},
     medicalDocuments |->
        {[id |-> 1, userId |-> requireAuth, uploadDate |-> 1,
          documentType |-> "'lab'", title |-> "'scan'", fileUrl |-> "'/f.pdf'"],
         [id |-> 2, userId |-> OtherUserId, uploadDate |-> 2,
          documentType |-> "'lab'", title |-> "'scan'", fileUrl |-> "'/f.pdf'"]},
     aiConversations |->
        {[id |-> 1, userId |-> requireAuth, createdAt |-> 1, messages |-> "'hello'"],
         [id |-> 2, userId |-> OtherUserId, createdAt |-> 2, messages |-> "'hello'"]},
     serial |-> [t \in TableNames |->
                   CASE t = "user_profiles" -> 1
                     [] t \in {"food_entries", "hrv_data"} -> 4
                     [] OTHER -> 3]]

\* last and before, the two latest responses sent, before any was sent
NoResponse == [n |-> 0, route |-> "none", stmt |-> 0, status |-> 0, sent |-> 0]

Init ==
    /\ \E db \in {EmptyDB, UsedDB} :
          /\ userProfiles = db.userProfiles
          /\ foodEntries = db.foodEntries
          /\ hrvData = db.hrvData
          /\ appointments = db.appointments
          /\ medicalDocuments = db.medicalDocuments
          /\ aiConversations = db.aiConversations
          /\ serial = db.serial
    /\ now = 2
    /\ inflight = {}
    /\ last = NoResponse
    /\ before = NoResponse
    /\ nreq = 0
    /\ answered = 0
    /\ stmts = 0

(***************************************************************************)
(* Storage layer (DatabaseStorage).  Every method issues one SQL          *)
(* statement.  A method is an operator from the database and its          *)
(* arguments to the set of outcomes the statement can have: the database  *)
(* after it, whether the promise resolved, the rows it resolved with or    *)
(* the error it rejected with.  The set has several members only where    *)
(* SQL leaves the result open (the order of rows with equal sort keys).   *)
(***************************************************************************)
Resolved(db, rows) == [db |-> db, ok |-> TRUE, rows |-> rows, error |-> <<>>]
Rejected(db, text) == [db |-> db, ok |-> FALSE, rows |-> <<>>, error |-> Msg(text)]

\* nextval of a table's id sequence: consumed even when the insert fails later
NextVal(db, t) == [db EXCEPT !.serial[t] = @ + 1]

\* a column left out of .values() / .set() (undefined) gets its default, NULL
Col(v) == IF v = Undefined THEN NULL ELSE v

\* what an integer column accepts as a bound parameter
IntegerInput(v) == v \in JsonNumbers \cup {Undefined, NULL}

Take(s, k) == SubSeq(s, 1, IF k < Len(s) THEN k ELSE Len(s))

\* ORDER BY key DESC: every arrangement of the rows with keys not increasing.
\* Rows of one key come in any order; rows of several keys are the rows of the
\* greater keys, arranged, followed by the rows of the lesser ones.
RECURSIVE DescOrders(_, _)
DescOrders(rows, key) ==
    LET keys == {key[r] : r \in rows}
    IN IF rows = {} THEN {<<>>}
       ELSE IF Cardinality(keys) = 1
       THEN UNION {{<<r>> \o rest : rest \in DescOrders(rows \ {r}, key)} : r \in rows}
       ELSE LET mid == CHOOSE k \in keys :
                          Cardinality({j \in keys : j > k}) = Cardinality(keys) \div 2
            IN {a \o b : a \in DescOrders({r \in rows : key[r] > mid}, key),
                         b \in DescOrders({r \in rows : key[r] <= mid}, key)}

\* .limit(n): LIMIT n for a count n >= 0.  For NaN the query builder emits
\* no LIMIT clause; for a negative n it either does the same or the
\* database rejects the clause, depending on the builder's release.
Limited(db, rows, key, limit) ==
    IF limit.nan THEN {Resolved(db, s) : s \in DescOrders(rows, key)}
    ELSE IF limit.val < 0
    THEN {Resolved(db, s) : s \in DescOrders(rows, key)}
         \cup {Rejected(db, "LIMIT must not be negative")}
    ELSE {Resolved(db, Take(s, limit.val)) : s \in DescOrders(rows, key)}

\* the default of a `limit = 50` / `limit = 100` parameter applies to undefined only
DefaultFoodLimit == 50
DefaultHRVLimit == 100
\* limit parameters without defaults: an undefined limit means no LIMIT clause
LimitOrDefault_NoDefault(limit, default) ==
    IF limit.given THEN [nan |-> limit.nan, val |-> limit.val]
    ELSE [nan |-> TRUE, val |-> 0]


LimitOrDefault(limit, default) ==
    IF limit.given THEN [nan |-> limit.nan, val |-> limit.val]
    ELSE [nan |-> FALSE, val |-> default]

getUserProfile(db, userId) ==
    LET found == {r \in db.userProfiles : r.userId = userId}
    IN IF found = {} THEN {Resolved(db, <<>>)}
       ELSE {Resolved(db, <<r>>) : r \in found}

onConflictDoUpdate(db, profileData, t) ==
    LET found == {r \in db.userProfiles : r.userId = profileData.userId}
        id == db.serial["user_profiles"]
        db1 == NextVal(db, "user_profiles")
        inserted == [id |-> id, userId |-> profileData.userId,
                     age |-> Col(profileData.age), sex |-> Col(profileData.sex),
                     createdAt |-> t, updatedAt |-> t]
        upd(r) == [r EXCEPT
                    !.age = IF profileData.age = Undefined THEN @ ELSE profileData.age,
                    !.sex = IF profileData.sex = Undefined THEN @ ELSE profileData.sex,
                    !.updatedAt = t]
    IN IF ~IntegerInput(profileData.age)
       THEN {Rejected(db, "invalid input syntax for type integer")}
       ELSE IF profileData.userId \notin users
       THEN {Rejected(db1, "violates foreign key constraint")}
       ELSE IF found = {}
       THEN {Resolved([db1 EXCEPT !.userProfiles = @ \cup {inserted}], <<inserted>>)}
       ELSE {Resolved([db1 EXCEPT !.userProfiles = (@ \ {r}) \cup {upd(r)}],
                      <<upd(r)>>) : r \in found}

\* INSERT ... ON CONFLICT (user_id) DO UPDATE SET <given fields>, updated_at:
\* the statement needs a unique index on the conflict target and is rejected
\* when the table has none; with one, it inserts the row or updates the
\* fields the payload gives
upsertUserProfile(db, profileData, t) ==
    IF ~UserProfilesUserIdUnique
    THEN {Rejected(db, "there is no unique or exclusion constraint matching the ON CONFLICT specification")}
    ELSE onConflictDoUpdate(db, profileData, t)

createFoodEntry(db, entryData, t) ==
    LET id == db.serial["food_entries"]
        db1 == NextVal(db, "food_entries")
        row == [id |-> id, userId |-> entryData.userId, timestamp |-> t,
                description |-> Col(entryData.description),
                calories |-> Col(entryData.calories)]
    IN IF ~IntegerInput(entryData.calories)
       THEN {Rejected(db, "invalid input syntax for type integer")}
       ELSE IF entryData.userId \notin users
       THEN {Rejected(db1, "violates foreign key constraint")}
       ELSE {Resolved([db1 EXCEPT !.foodEntries = @ \cup {row}], <<row>>)}

getFoodEntries(db, userId, limit) ==
    LET rows == {r \in db.foodEntries : r.userId = userId}
    IN Limited(db, rows, [r \in rows |-> r.timestamp],
               LimitOrDefault(limit, DefaultFoodLimit))

\* gt/lt in place of gte/lte
getFoodEntriesByDateRange_Exclusive(db, userId, startDate, endDate) ==
    LET rows == {r \in db.foodEntries :
                    /\ r.userId = userId
                    /\ r.timestamp > startDate.val
                    /\ r.timestamp < endDate.val}
    IN IF startDate.nan \/ endDate.nan
       THEN {Rejected(db, "Invalid time value")}
       ELSE {Resolved(db, s) : s \in DescOrders(rows, [r \in rows |-> r.timestamp])}

\* startDate and endDate are Date objects; an Invalid Date cannot be
\* serialised as a query parameter and the call rejects
getFoodEntriesByDateRange(db, userId, startDate, endDate) ==
    LET rows == {r \in db.foodEntries :
                    /\ r.userId = userId
                    /\ r.timestamp >= startDate.val
                    /\ r.timestamp <= endDate.val}
    IN IF startDate.nan \/ endDate.nan
       THEN {Rejected(db, "Invalid time value")}
       ELSE {Resolved(db, s) : s \in DescOrders(rows, [r \in rows |-> r.timestamp])}

\* an insert that keeps one record per user and instant: it replaces the
\* user's record of the same instant
createHRVData_Replacing(db, data, t) ==
    LET id == db.serial["hrv_data"]
        db1 == NextVal(db, "hrv_data")
        row == [id |-> id, userId |-> data.userId, timestamp |-> t,
                heartRate |-> Col(data.heartRate)]
        kept == {r \in db.hrvData : ~(r.userId = data.userId /\ r.timestamp = t)}
    IN IF ~IntegerInput(data.heartRate)
       THEN {Rejected(db, "invalid input syntax for type integer")}
       ELSE IF data.userId \notin users
       THEN {Rejected(db1, "violates foreign key constraint")}
       ELSE {Resolved([db1 EXCEPT !.hrvData = kept \cup {row}], <<row>>)}


createHRVData(db, data, t) ==
    LET id == db.serial["hrv_data"]
        db1 == NextVal(db, "hrv_data")
        row == [id |-> id, userId |-> data.userId, timestamp |-> t,
                heartRate |-> Col(data.heartRate)]
    IN IF ~IntegerInput(data.heartRate)
       THEN {Rejected(db, "invalid input syntax for type integer")}
       ELSE IF data.userId \notin users
       THEN {Rejected(db1, "violates foreign key constraint")}
       ELSE {Resolved([db1 EXCEPT !.hrvData = @ \cup {row}], <<row>>)}

getHRVData(db, userId, limit) ==
    LET rows == {r \in db.hrvData : r.userId = userId}
    IN Limited(db, rows, [r \in rows |-> r.timestamp],
               LimitOrDefault(limit, DefaultHRVLimit))

\* appointmentData.appointmentDate is a Date the schema let through
createAppointment(db, appointmentData, t) ==
    LET id == db.serial["appointments"]
        db1 == NextVal(db, "appointments")
        row == [id |-> id, patientId |-> appointmentData.patientId,
                doctorId |-> appointmentData.doctorId,
                appointmentDate |-> appointmentData.appointmentDate.val,
                status |-> IF appointmentData.status = Undefined
                           THEN "'scheduled'" ELSE appointmentData.status,
                updatedAt |-> t]
    IN IF appointmentData.status \notin appointmentStatusEnum \cup {Undefined, NULL}
       THEN {Rejected(db, "invalid input value for enum appointment_status")}
       ELSE IF {appointmentData.patientId, appointmentData.doctorId} \subseteq users
       THEN {Resolved([db1 EXCEPT !.appointments = @ \cup {row}], <<row>>)}
       ELSE {Rejected(db1, "violates foreign key constraint")}

\* the query without its WHERE clause
getAppointments_AllPatients(db, userId) ==
    {Resolved(db, s) : s \in DescOrders(db.appointments,
                                        [r \in db.appointments |-> r.appointmentDate])}


getAppointments(db, userId) ==
    LET rows == {r \in db.appointments : r.patientId = userId}
    IN {Resolved(db, s) : s \in DescOrders(rows, [r \in rows |-> r.appointmentDate])}

\* lte in place of eq in the WHERE clause
updateAppointmentStatus_UpToId(db, id, status, t) ==
    LET upd(r) == [r EXCEPT !.status = IF status = Undefined THEN @ ELSE status,
                            !.updatedAt = t]
    IN IF id.nan
       THEN {Rejected(db, "invalid input syntax for type integer")}
       ELSE IF status \notin appointmentStatusEnum \cup {Undefined, NULL}
       THEN {Rejected(db, "invalid input value for enum appointment_status")}
       ELSE {Resolved([db EXCEPT !.appointments =
                         {IF r.id <= id.val THEN upd(r) ELSE r : r \in @}], <<>>)}

\* the UPDATE without its WHERE clause
updateAppointmentStatus_NoWhere(db, id, status, t) ==
    LET upd(r) == [r EXCEPT !.status = IF status = Undefined THEN @ ELSE status,
                            !.updatedAt = t]
    IN IF id.nan
       THEN {Rejected(db, "invalid input syntax for type integer")}
       ELSE IF status \notin appointmentStatusEnum \cup {Undefined, NULL}
       THEN {Rejected(db, "invalid input value for enum appointment_status")}
       ELSE {Resolved([db EXCEPT !.appointments = {upd(r) : r \in @}], <<>>)}

\* UPDATE appointments SET status = $1, updated_at = $2 WHERE id = $3.
\* The parameters are converted to the column types before any row is
\* looked at: NaN is no integer and a string outside the enum is no
\* appointment_status.  .set() leaves out an undefined status.
updateAppointmentStatus(db, id, status, t) ==
    LET upd(r) == [r EXCEPT !.status = IF status = Undefined THEN @ ELSE status,
                            !.updatedAt = t]
    IN IF id.nan
       THEN {Rejected(db, "invalid input syntax for type integer")}
       ELSE IF status \notin appointmentStatusEnum \cup {Undefined, NULL}
       THEN {Rejected(db, "invalid input value for enum appointment_status")}
       ELSE {Resolved([db EXCEPT !.appointments =
                         {IF r.id = id.val THEN upd(r) ELSE r : r \in @}], <<>>)}

createMedicalDocument(db, documentData, t) ==
    LET id == db.serial["medical_documents"]
        db1 == NextVal(db, "medical_documents")
        row == [id |-> id, userId |-> documentData.userId, uploadDate |-> t,
                documentType |-> documentData.documentType,
                title |-> documentData.title, fileUrl |-> documentData.fileUrl]
    IN IF documentData.userId \notin users
       THEN {Rejected(db1, "violates foreign key constraint")}
       ELSE {Resolved([db1 EXCEPT !.medicalDocuments = @ \cup {row}], <<row>>)}

getMedicalDocuments(db, userId) ==
    LET rows == {r \in db.medicalDocuments : r.userId = userId}
    IN {Resolved(db, s) : s \in DescOrders(rows, [r \in rows |-> r.uploadDate])}

\* messages is jsonb NOT NULL and the route applies no schema
createAIConversation(db, conversationData, t) ==
    LET id == db.serial["ai_conversations"]
        db1 == NextVal(db, "ai_conversations")
        row == [id |-> id, userId |-> conversationData.userId, createdAt |-> t,
                messages |-> conversationData.messages]
    IN IF Col(conversationData.messages) = NULL
       THEN {Rejected(db1, "null value in column messages violates not-null constraint")}
       ELSE IF conversationData.userId \notin users
       THEN {Rejected(db1, "violates foreign key constraint")}
       ELSE {Resolved([db1 EXCEPT !.aiConversations = @ \cup {row}], <<row>>)}

getAIConversations(db, userId) ==
    LET rows == {r \in db.aiConversations : r.userId = userId}
    IN {Resolved(db, s) : s \in DescOrders(rows, [r \in rows |-> r.createdAt])}

\* the storage singleton: the method a handler awaits, by name
storage(db, call, t) ==
    CASE call.op = "getUserProfile" -> getUserProfile(db, call.userId)
      [] call.op = "upsertUserProfile" -> upsertUserProfile(db, call.data, t)
      [] call.op = "createFoodEntry" -> createFoodEntry(db, call.data, t)
      [] call.op = "getFoodEntries" -> getFoodEntries(db, call.userId, call.limit)
      [] call.op = "getFoodEntriesByDateRange" ->
            getFoodEntriesByDateRange(db, call.userId, call.startDate, call.endDate)
      [] call.op = "createHRVData" -> createHRVData(db, call.data, t)
      [] call.op = "getHRVData" -> getHRVData(db, call.userId, call.limit)
      [] call.op = "createAppointment" -> createAppointment(db, call.data, t)
      [] call.op = "getAppointments" -> getAppointments(db, call.userId)
      [] call.op = "updateAppointmentStatus" ->
            updateAppointmentStatus(db, call.id, call.status, t)
      [] call.op = "createMedicalDocument" -> createMedicalDocument(db, call.data, t)
      [] call.op = "getMedicalDocuments" -> getMedicalDocuments(db, call.userId)
      [] call.op = "createAIConversation" -> createAIConversation(db, call.data, t)
      [] call.op = "getAIConversations" -> getAIConversations(db, call.userId)

(***************************************************************************)
(* Insert schemas (createInsertSchema(table).omit(...)).  parse() returns *)
(* the object for a column-typed input and throws otherwise.  A column    *)
(* that is nullable or has a default is optional; an integer column takes *)
(* a number, a varchar/text/uuid column a string, a pgEnum column one of  *)
(* its values, a timestamp column a Date object.                          *)
(***************************************************************************)
TypeOf(v) ==
    CASE v = Undefined -> "undefined"
      [] v = NULL -> "null"
      [] v \in JsonNumbers -> "number"
      [] v \in JsonStrings -> "string"

Optional(v, type) == TypeOf(v) \in {"undefined", "null", type}
Required(v, type) == TypeOf(v) = type

Parsed(obj) == [ok |-> TRUE, data |-> obj, error |-> <<>>]
ZodError == [ok |-> FALSE, data |-> <<>>, error |-> Msg("ZodError")]

insertUserProfileSchema(obj) ==
    IF /\ Required(obj.userId, "string")
       /\ Optional(obj.age, "number")
       /\ Optional(obj.sex, "string")
    THEN Parsed(obj) ELSE ZodError

\* a schema that checks the presence of userId only
insertFoodEntrySchema_NoTypes(obj) ==
    IF obj.userId # Undefined THEN Parsed(obj) ELSE ZodError

insertFoodEntrySchema(obj) ==
    IF /\ Required(obj.userId, "string")
       /\ Optional(obj.description, "string")
       /\ Optional(obj.calories, "number")
    THEN Parsed(obj) ELSE ZodError

\* appointmentDate is timestamp(...).notNull(): a Date is required, and a
\* JSON body holds none
insertAppointmentSchema(obj) ==
    IF /\ Required(obj.patientId, "string")
       /\ Required(obj.doctorId, "string")
       /\ Required(obj.appointmentDate, "date")
       /\ obj.status \in appointmentStatusEnum \cup {Undefined, NULL}
    THEN Parsed(obj) ELSE ZodError

insertMedicalDocumentSchema(obj) ==
    IF /\ Required(obj.userId, "string")
       /\ Required(obj.documentType, "string")
       /\ Required(obj.title, "string")
       /\ Required(obj.fileUrl, "string")
    THEN Parsed(obj) ELSE ZodError

(***************************************************************************)
(* AI analysis collaborators.  reply is what the provider call does: it   *)
(* answers with text that is JSON (of the asked shape or another), with   *)
(* text that is not JSON, or the SDK call throws.                          *)
(***************************************************************************)
ProviderReplies == {"json", "json_other_shape", "not_json", "network_error", "rate_limit"}

\* error.message of what the try block threw
FailureText(reply) ==
    CASE reply = "not_json" -> "Unexpected token in JSON"
      [] reply = "network_error" -> "Connection error."
      [] reply = "rate_limit" -> "429 rate_limit_error"

Analysis(reply) == [analysis |-> reply]

analyzeFoodImage(base64Image, reply) ==
    IF reply \in {"json", "json_other_shape"}
    THEN [ok |-> TRUE, rows |-> <<Analysis(reply)>>, error |-> <<>>]
    ELSE [ok |-> FALSE, rows |-> <<>>,
          error |-> Msg("Failed to analyze food image: ") \o Msg(FailureText(reply))]

analyzeFoodText(description, reply) ==
    IF reply \in {"json", "json_other_shape"}
    THEN [ok |-> TRUE, rows |-> <<Analysis(reply)>>, error |-> <<>>]
    ELSE [ok |-> FALSE, rows |-> <<>>,
          error |-> Msg("Failed to analyze food description: ") \o Msg(FailureText(reply))]

(***************************************************************************)
(* Route layer (registerRoutes).  A request is a record: its arrival      *)
(* number n, its route, its input (query, params, body), the user id      *)
(* requireAuth stamped on it, and seen, the number of the request whose   *)
(* response was the latest one sent when it arrived.                       *)
(***************************************************************************)
NoInput == [empty |-> TRUE]
NoCall == [op |-> "none"]
NoOutcome == [ok |-> FALSE, rows |-> <<>>, error |-> <<>>]

StorageOps == {"getUserProfile", "upsertUserProfile", "createFoodEntry",
               "getFoodEntries", "getFoodEntriesByDateRange", "createHRVData",
               "getHRVData", "createAppointment", "getAppointments",
               "updateAppointmentStatus", "createMedicalDocument",
               "getMedicalDocuments", "createAIConversation", "getAIConversations"}
AnalysisOps == {"analyzeFoodImage", "analyzeFoodText"}

Request(route, input) ==
    [n |-> nreq + 1, route |-> route, input |-> input, userId |-> requireAuth,
     seen |-> last.n, sent |-> 0]

JsonBody(kind, rows) == [kind |-> kind, rows |-> rows, message |-> <<>>]
MessageBody(text) == [kind |-> "message", rows |-> <<>>, message |-> Msg(text)]

\* res.status(status).json(body), after console.error(logged) on the catch path
Response(req, call, stmt, status, body, logged) ==
    [n |-> req.n, route |-> req.route, input |-> req.input, userId |-> req.userId,
     seen |-> req.seen, call |-> call, stmt |-> stmt, status |-> status,
     body |-> body, logged |-> logged, sent |-> req.sent + 1]

\* the message of each handler's catch clause
CatchMessage(route) ==
    CASE route = "GET /api/profile" -> "Failed to fetch profile"
      [] route = "POST /api/profile" -> "Failed to update profile"
      [] route = "GET /api/food-entries" -> "Failed to fetch food entries"
      [] route = "POST /api/food-entries" -> "Failed to create food entry"
      [] route = "GET /api/food-entries/range" -> "Failed to fetch food entries"
      [] route = "POST /api/analyze-food-image" -> "Failed to analyze food image"
      [] route = "POST /api/analyze-food-text" -> "Failed to analyze food description"
      [] route = "GET /api/hrv-data" -> "Failed to fetch HRV data"
      [] route = "POST /api/hrv-data" -> "Failed to create HRV data"
      [] route = "GET /api/appointments" -> "Failed to fetch appointments"
      [] route = "POST /api/appointments" -> "Failed to create appointment"
      [] route = "PATCH /api/appointments/:id/status" -> "Failed to update appointment status"
      [] route = "GET /api/medical-documents" -> "Failed to fetch medical documents"
      [] route = "POST /api/medical-documents" -> "Failed to create medical document"
      [] route = "GET /api/ai-conversations" -> "Failed to fetch AI conversations"
      [] route = "POST /api/ai-conversations" -> "Failed to create AI conversation"

\* status of a handler's catch clause and of its explicit precondition checks
CatchStatus == 500
RejectStatus == 400
OkStatus == 200

\* res.json(x) with the value the awaited call resolved with
ResolvedBody(route, rows) ==
    CASE route = "PATCH /api/appointments/:id/status" ->
            MessageBody("Appointment status updated")
      [] route = "GET /api/profile" ->
            IF rows = <<>> THEN JsonBody("undefined", <<>>) ELSE JsonBody("object", rows)
      [] route \in {"GET /api/food-entries", "GET /api/food-entries/range",
                    "GET /api/hrv-data", "GET /api/appointments",
                    "GET /api/medical-documents", "GET /api/ai-conversations"} ->
            JsonBody("array", rows)
      [] OTHER -> JsonBody("object", rows)

\* the handler reaches its await: the call is issued and the request suspends
Await(req, call) ==
    /\ inflight' = inflight \cup
          {[n |-> req.n, route |-> req.route, input |-> req.input,
            userId |-> req.userId, seen |-> req.seen, sent |-> req.sent,
            call |-> call, phase |-> "awaiting", stmt |-> 0,
            outcome |-> NoOutcome]}
    /\ nreq' = nreq + 1
    /\ UNCHANGED <<tables, last, before, answered, stmts>>

\* the handler responds before any await
ReplyNow(resp) ==
    /\ last' = resp
    /\ before' = last
    /\ nreq' = nreq + 1
    /\ answered' = answered + 1
    /\ UNCHANGED <<tables, inflight, stmts>>

\* a throw inside try before the await: console.error, then the catch response
Catch(req, error) ==
    ReplyNow(Response(req, NoCall, 0, CatchStatus,
                      MessageBody(CatchMessage(req.route)), error))

\* `return res.status(400).json({ message })`
Reject(req, text) ==
    ReplyNow(Response(req, NoCall, 0, RejectStatus, MessageBody(text), <<>>))

\* { userId: req.userId, ...req.body }: a userId of the body wins
WithUserId_BodyWins(body, userId) ==
    IF body.userId = Undefined THEN [body EXCEPT !.userId = userId] ELSE body

\* { ...req.body, userId: req.userId }
WithUserId(body, userId) == [body EXCEPT !.userId = userId]
\* { ...req.body, patientId: req.userId }
WithPatientId(body, userId) == [body EXCEPT !.patientId = userId]

\* `parseInt(req.query.limit) || undefined`: a limit of 0 counts as none
LimitArg_ZeroIsNone(s) ==
    IF TruthyParam(s) /\ ~parseInt(s).nan /\ parseInt(s).val # 0
    THEN [given |-> TRUE, nan |-> FALSE, val |-> parseInt(s).val]
    ELSE [given |-> FALSE, nan |-> FALSE, val |-> 0]

\* `req.query.limit ? parseInt(req.query.limit) : undefined`
LimitArg(s) ==
    IF TruthyParam(s)
    THEN [given |-> TRUE, nan |-> parseInt(s).nan, val |-> parseInt(s).val]
    ELSE [given |-> FALSE, nan |-> FALSE, val |-> 0]

(***************************************************************************)
(* Request inputs.                                                         *)
(***************************************************************************)
ProfileBodies == [userId : {Undefined, OtherUserId},
                  age : {Undefined, "30", "40", "'old'"},
                  sex : {Undefined, "'F'"}]
FoodBodies == [userId : {Undefined, OtherUserId},
               description : {Undefined, "'toast'"},
               calories : {Undefined, "200", "'many'"}]
HRVBodies == [userId : {Undefined, OtherUserId},
              heartRate : {Undefined, "60", "'fast'"}]
AppointmentBodies == [patientId : {Undefined, OtherUserId},
                      doctorId : {Undefined, DoctorId},
                      appointmentDate : {Undefined, "'2024-01-02'"},
                      status : {Undefined, "'scheduled'", "'bogus'"}]
StatusBodies == [status : {Undefined, NULL, "'completed'", "'cancelled'", "'bogus'"}]
DocumentBodies == [userId : {Undefined, OtherUserId},
                   documentType : {Undefined, "'lab'"},
                   title : {Undefined, "'scan'"},
                   fileUrl : {Undefined, "'/f.pdf'"}]
ConversationBodies == [userId : {Undefined, OtherUserId},
                       messages : {Undefined, "'hello'"}]
ImageBodies == [base64Image : {Undefined, "''", "'img'"}]
TextBodies == [description : {Undefined, "''", "'toast'"}]
LimitParams == {NoParam, <<>>, <<"0">>, <<"1">>, <<"2">>, <<"-", "1">>, <<"x">>,
                <<"1", "x">>}
DateParams == {NoParam, <<>>, <<"d", "1">>, <<"d", "2">>, <<"d", "3">>, <<"x">>}
IdParams == {<<"1">>, <<"2">>, <<"9">>, <<"x">>}

(***************************************************************************)
(* The handlers, up to their await.                                        *)
(***************************************************************************)
\* a handler that answers without asking the storage
GetProfile_NoStorage ==
    LET req == Request("GET /api/profile", NoInput)
    IN ReplyNow(Response(req, NoCall, 0, OkStatus, JsonBody("undefined", <<>>), <<>>))


GetProfile ==
    LET req == Request("GET /api/profile", NoInput)
    IN Await(req, [op |-> "getUserProfile", userId |-> req.userId])

PostProfile ==
    \E body \in ProfileBodies :
        LET req == Request("POST /api/profile", [body |-> body])
            profileData == insertUserProfileSchema(WithUserId(body, req.userId))
        IN IF profileData.ok
           THEN Await(req, [op |-> "upsertUserProfile", data |-> profileData.data])
           ELSE Catch(req, profileData.error)

GetFoodEntries ==
    \E limit \in LimitParams :
        LET req == Request("GET /api/food-entries", [limit |-> limit])
        IN Await(req, [op |-> "getFoodEntries", userId |-> req.userId,
                       limit |-> LimitArg(limit)])

PostFoodEntries ==
    \E body \in FoodBodies :
        LET req == Request("POST /api/food-entries", [body |-> body])
            entryData == insertFoodEntrySchema(WithUserId(body, req.userId))
        IN IF entryData.ok
           THEN Await(req, [op |-> "createFoodEntry", data |-> entryData.data])
           ELSE Catch(req, entryData.error)

GetFoodEntriesRange ==
    \E startDate \in DateParams, endDate \in DateParams :
        LET req == Request("GET /api/food-entries/range",
                           [startDate |-> startDate, endDate |-> endDate])
        IN IF ~TruthyParam(startDate) \/ ~TruthyParam(endDate)
           THEN Reject(req, "Start date and end date are required")
           ELSE Await(req, [op |-> "getFoodEntriesByDateRange", userId |-> req.userId,
                            startDate |-> NewDate(startDate),
                            endDate |-> NewDate(endDate)])

\* the handler without its `if (!base64Image)` check
PostAnalyzeFoodImage_NoCheck ==
    \E body \in ImageBodies :
        LET req == Request("POST /api/analyze-food-image", [body |-> body])
        IN Await(req, [op |-> "analyzeFoodImage", arg |-> body.base64Image])

PostAnalyzeFoodImage ==
    \E body \in ImageBodies :
        LET req == Request("POST /api/analyze-food-image", [body |-> body])
        IN IF ~Truthy(body.base64Image)
           THEN Reject(req, "Base64 image is required")
           ELSE Await(req, [op |-> "analyzeFoodImage", arg |-> body.base64Image])

PostAnalyzeFoodText ==
    \E body \in TextBodies :
        LET req == Request("POST /api/analyze-food-text", [body |-> body])
        IN IF ~Truthy(body.description)
           THEN Reject(req, "Food description is required")
           ELSE Await(req, [op |-> "analyzeFoodText", arg |-> body.description])

GetHRVData ==
    \E limit \in LimitParams :
        LET req == Request("GET /api/hrv-data", [limit |-> limit])
        IN Await(req, [op |-> "getHRVData", userId |-> req.userId,
                       limit |-> LimitArg(limit)])

PostHRVData ==
    \E body \in HRVBodies :
        LET req == Request("POST /api/hrv-data", [body |-> body])
        IN Await(req, [op |-> "createHRVData", data |-> WithUserId(body, req.userId)])

GetAppointments ==
    LET req == Request("GET /api/appointments", NoInput)
    IN Await(req, [op |-> "getAppointments", userId |-> req.userId])

PostAppointments ==
    \E body \in AppointmentBodies :
        LET req == Request("POST /api/appointments", [body |-> body])
            appointmentData == insertAppointmentSchema(WithPatientId(body, req.userId))
        IN IF appointmentData.ok
           THEN Await(req, [op |-> "createAppointment", data |-> appointmentData.data])
           ELSE Catch(req, appointmentData.error)

PatchAppointmentStatus ==
    \E id \in IdParams, body \in StatusBodies :
        LET req == Request("PATCH /api/appointments/:id/status",
                           [id |-> id, body |-> body])
        IN Await(req, [op |-> "updateAppointmentStatus", id |-> parseInt(id),
                       status |-> body.status])

GetMedicalDocuments ==
    LET req == Request("GET /api/medical-documents", NoInput)
    IN Await(req, [op |-> "getMedicalDocuments", userId |-> req.userId])

PostMedicalDocuments ==
    \E body \in DocumentBodies :
        LET req == Request("POST /api/medical-documents", [body |-> body])
            documentData == insertMedicalDocumentSchema(WithUserId(body, req.userId))
        IN IF documentData.ok
           THEN Await(req, [op |-> "createMedicalDocument", data |-> documentData.data])
           ELSE Catch(req, documentData.error)

GetAIConversations ==
    LET req == Request("GET /api/ai-conversations", NoInput)
    IN Await(req, [op |-> "getAIConversations", userId |-> req.userId])

PostAIConversations ==
    \E body \in ConversationBodies :
        LET req == Request("POST /api/ai-conversations", [body |-> body])
        IN Await(req, [op |-> "createAIConversation",
                       data |-> WithUserId(body, req.userId)])

(***************************************************************************)
(* The awaited calls settle.                                               *)
(***************************************************************************)
Settle(r, outcome, stmt) ==
    inflight' = (inflight \ {r}) \cup
        {[r EXCEPT !.phase = "settled", !.outcome = outcome, !.stmt = stmt]}

\* The database executes the statement of an awaited storage call, at the
\* current instant or a later one, or the connection fails.
DbExecute ==
    \E r \in inflight, up \in BOOLEAN, t \in {now, now + 1} :
        /\ r.phase = "awaiting"
        /\ r.call.op \in StorageOps
        /\ \E out \in (IF up THEN storage(DB, r.call, t)
                       ELSE {Rejected(DB, "Connection terminated unexpectedly")}) :
              /\ userProfiles' = out.db.userProfiles
              /\ foodEntries' = out.db.foodEntries
              /\ hrvData' = out.db.hrvData
              /\ appointments' = out.db.appointments
              /\ medicalDocuments' = out.db.medicalDocuments
              /\ aiConversations' = out.db.aiConversations
              /\ serial' = out.db.serial
              /\ Settle(r, [ok |-> out.ok, rows |-> out.rows, error |-> out.error],
                        stmts + 1)
        /\ now' = t
        /\ stmts' = stmts + 1
        /\ UNCHANGED <<last, before, nreq, answered>>

\* The AI provider answers an awaited analysis call, or the call fails.
AiExecute ==
    \E r \in inflight, reply \in ProviderReplies :
        /\ r.phase = "awaiting"
        /\ r.call.op \in AnalysisOps
        /\ Settle(r, IF r.call.op = "analyzeFoodImage"
                     THEN analyzeFoodImage(r.call.arg, reply)
                     ELSE analyzeFoodText(r.call.arg, reply), 0)
        /\ UNCHANGED <<tables, last, before, nreq, answered, stmts>>

\* handlers without a catch clause: a rejected call is never answered
Respond_NoCatch ==
    \E r \in inflight :
        /\ r.phase = "settled"
        /\ r.outcome.ok
        /\ inflight' = inflight \ {r}
        /\ last' = Response(r, r.call, r.stmt, OkStatus,
                            ResolvedBody(r.route, r.outcome.rows), <<>>)
        /\ before' = last
        /\ answered' = answered + 1
        /\ UNCHANGED <<tables, nreq, stmts>>


\* a catch clause that answers with the message of the error it caught
Respond_EmbedsError ==
    \E r \in inflight :
        /\ r.phase = "settled"
        /\ inflight' = inflight \ {r}
        /\ last' = IF r.outcome.ok
                   THEN Response(r, r.call, r.stmt, OkStatus,
                                 ResolvedBody(r.route, r.outcome.rows), <<>>)
                   ELSE Response(r, r.call, r.stmt, CatchStatus,
                                 [kind |-> "message", rows |-> <<>>,
                                  message |-> r.outcome.error], r.outcome.error)
        /\ before' = last
        /\ answered' = answered + 1
        /\ UNCHANGED <<tables, nreq, stmts>>

\* a handler that answers and stays suspended, to answer again
Respond_Twice ==
    \E r \in inflight :
        /\ r.phase = "settled"
        /\ inflight' = inflight
        /\ last' = IF r.outcome.ok
                   THEN Response(r, r.call, r.stmt, OkStatus,
                                 ResolvedBody(r.route, r.outcome.rows), <<>>)
                   ELSE Response(r, r.call, r.stmt, CatchStatus,
                                 MessageBody(CatchMessage(r.route)), r.outcome.error)
        /\ before' = last
        /\ answered' = answered + 1
        /\ UNCHANGED <<tables, nreq, stmts>>

\* The handler resumes after its await: res.json(result), or the catch clause.
Respond ==
    \E r \in inflight :
        /\ r.phase = "settled"
        /\ inflight' = inflight \ {r}
        /\ last' = IF r.outcome.ok
                   THEN Response(r, r.call, r.stmt, OkStatus,
                                 ResolvedBody(r.route, r.outcome.rows), <<>>)
                   ELSE Response(r, r.call, r.stmt, CatchStatus,
                                 MessageBody(CatchMessage(r.route)), r.outcome.error)
        /\ before' = last
        /\ answered' = answered + 1
        /\ UNCHANGED <<tables, nreq, stmts>>

(***************************************************************************)
(* Specifications.                                                         *)
(***************************************************************************)
Accepting(maxRequests, maxInFlight) ==
    nreq < maxRequests /\ Cardinality(inflight) < maxInFlight

\* every route, under the bounds of the full specification
Next ==
    \/ Accepting(MaxRequests, MaxInFlight) /\ GetProfile
    \/ Accepting(MaxRequests, MaxInFlight) /\ PostProfile
    \/ Accepting(MaxRequests, MaxInFlight) /\ GetFoodEntries
    \/ Accepting(MaxRequests, MaxInFlight) /\ PostFoodEntries
    \/ Accepting(MaxRequests, MaxInFlight) /\ GetFoodEntriesRange
    \/ Accepting(MaxRequests, MaxInFlight) /\ PostAnalyzeFoodImage
    \/ Accepting(MaxRequests, MaxInFlight) /\ PostAnalyzeFoodText
    \/ Accepting(MaxRequests, MaxInFlight) /\ GetHRVData
    \/ Accepting(MaxRequests, MaxInFlight) /\ PostHRVData
    \/ Accepting(MaxRequests, MaxInFlight) /\ GetAppointments
    \/ Accepting(MaxRequests, MaxInFlight) /\ PostAppointments
    \/ Accepting(MaxRequests, MaxInFlight) /\ PatchAppointmentStatus
    \/ Accepting(MaxRequests, MaxInFlight) /\ GetMedicalDocuments
    \/ Accepting(MaxRequests, MaxInFlight) /\ PostMedicalDocuments
    \/ Accepting(MaxRequests, MaxInFlight) /\ GetAIConversations
    \/ Accepting(MaxRequests, MaxInFlight) /\ PostAIConversations
    \/ DbExecute
    \/ AiExecute
    \/ Respond

Spec == Init /\ [][Next]_vars

\* the routes of one entity, with more requests and with concurrency
NextProfile ==
    \/ Accepting(MaxEntityRequests, MaxEntityInFlight) /\ GetProfile
    \/ Accepting(MaxEntityRequests, MaxEntityInFlight) /\ PostProfile
    \/ DbExecute
    \/ Respond

SpecProfile == Init /\ [][NextProfile]_vars

NextFood ==
    \/ Accepting(MaxEntityRequests, MaxEntityInFlight) /\ GetFoodEntries
    \/ Accepting(MaxEntityRequests, MaxEntityInFlight) /\ PostFoodEntries
    \/ Accepting(MaxEntityRequests, MaxEntityInFlight) /\ GetFoodEntriesRange
    \/ DbExecute
    \/ Respond

SpecFood == Init /\ [][NextFood]_vars

NextHRV ==
    \/ Accepting(MaxEntityRequests, MaxEntityInFlight) /\ GetHRVData
    \/ Accepting(MaxEntityRequests, MaxEntityInFlight) /\ PostHRVData
    \/ DbExecute
    \/ Respond

SpecHRV == Init /\ [][NextHRV]_vars

NextAppointments ==
    \/ Accepting(MaxEntityRequests, MaxEntityInFlight) /\ GetAppointments
    \/ Accepting(MaxEntityRequests, MaxEntityInFlight) /\ PostAppointments
    \/ Accepting(MaxEntityRequests, MaxEntityInFlight) /\ PatchAppointmentStatus
    \/ DbExecute
    \/ Respond

SpecAppointments == Init /\ [][NextAppointments]_vars

NextAnalysis ==
    \/ Accepting(MaxEntityRequests, MaxEntityInFlight) /\ PostAnalyzeFoodImage
    \/ Accepting(MaxEntityRequests, MaxEntityInFlight) /\ PostAnalyzeFoodText
    \/ AiExecute
    \/ Respond

SpecAnalysis == Init /\ [][NextAnalysis]_vars

\* Requests that wait on the AI provider next to requests that wait on the
\* database.  The database answers every statement it is sent (or the
\* connection fails) and the runtime resumes every handler whose awaited call
\* has settled; nothing is assumed of the AI provider, which may never answer.
NextLive ==
    \/ Accepting(MaxEntityRequests, MaxEntityInFlight) /\ PostAnalyzeFoodImage
    \/ Accepting(MaxEntityRequests, MaxEntityInFlight) /\ PostAnalyzeFoodText
    \/ Accepting(MaxEntityRequests, MaxEntityInFlight) /\ GetProfile
    \/ Accepting(MaxEntityRequests, MaxEntityInFlight) /\ PostHRVData
    \/ DbExecute
    \/ AiExecute
    \/ Respond

SpecLive == Init /\ [][NextLive]_vars /\ WF_vars(DbExecute) /\ WF_vars(Respond)

(***************************************************************************)
(* A database filled past the default caps of the list methods: the user  *)
(* has ManyFoodEntries food entries and ManyHRVRecords HRV records, or    *)
(* three fewer of each, one per instant, and another user has the two     *)
(* newest rows of each table.                                              *)
(***************************************************************************)
FilledDB(nFood, nHRV) ==
    [EmptyDB EXCEPT
       !.foodEntries =
           {[id |-> k, userId |-> IF k > nFood THEN OtherUserId ELSE requireAuth,
             timestamp |-> k, description |-> "'toast'", calories |-> "200"] :
              k \in 1..(nFood + 2)},
       !.hrvData =
           {[id |-> k, userId |-> IF k > nHRV THEN OtherUserId ELSE requireAuth,
             timestamp |-> k, heartRate |-> "60"] : k \in 1..(nHRV + 2)},
       !.serial = [t \in TableNames |->
                     CASE t = "food_entries" -> nFood + 3
                       [] t = "hrv_data" -> nHRV + 3
                       [] OTHER -> 1]]

InitFilled ==
    /\ \E short \in {0, 3} :
          LET db == FilledDB(ManyFoodEntries - short, ManyHRVRecords - short)
          IN /\ userProfiles = db.userProfiles
             /\ foodEntries = db.foodEntries
             /\ hrvData = db.hrvData
             /\ appointments = db.appointments
             /\ medicalDocuments = db.medicalDocuments
             /\ aiConversations = db.aiConversations
             /\ serial = db.serial
    /\ now = ManyHRVRecords + 2
    /\ inflight = {}
    /\ last = NoResponse
    /\ before = NoResponse
    /\ nreq = 0
    /\ answered = 0
    /\ stmts = 0

\* the list and create routes of the two capped tables, over a filled database
NextFilled ==
    \/ Accepting(MaxRequests, MaxInFlight) /\ GetFoodEntries
    \/ Accepting(MaxRequests, MaxInFlight) /\ PostFoodEntries
    \/ Accepting(MaxRequests, MaxInFlight) /\ GetHRVData
    \/ Accepting(MaxRequests, MaxInFlight) /\ PostHRVData
    \/ DbExecute
    \/ Respond

SpecFilled == InitFilled /\ [][NextFilled]_vars

(***************************************************************************)
(* Properties.                                                             *)
(***************************************************************************)
Range(seq) == {seq[i] : i \in 1..Len(seq)}
NoDuplicates(seq) == Cardinality(Range(seq)) = Len(seq)
ConnectionLost(resp) == resp.logged = Msg("Connection terminated unexpectedly")
Settled == {r \in inflight : r.phase = "settled"}

C2_PostThenGetReturnsPosted ==
    (/\ last.route = "GET /api/profile"
     /\ before.route = "POST /api/profile"
     /\ before.call.op = "upsertUserProfile"
     /\ last.seen = before.n
     /\ last.stmt = before.stmt + 1
     /\ ~ConnectionLost(before)
     /\ ~ConnectionLost(last))
    => /\ last.status = OkStatus
       /\ last.body.kind = "object"
       /\ last.body.rows[1].userId = requireAuth
       /\ last.body.rows[1].age = Col(before.input.body.age)
       /\ last.body.rows[1].sex = Col(before.input.body.sex)

\* what a range query over the present food_entries table has to return
RangeRowsOk(input, rows) ==
    /\ NoDuplicates(rows)
    /\ Range(rows) = {r \in foodEntries :
                        /\ r.userId = requireAuth
                        /\ NewDate(input.startDate).val <= r.timestamp
                        /\ r.timestamp <= NewDate(input.endDate).val}
    /\ \A i, j \in 1..Len(rows) : i < j => rows[i].timestamp >= rows[j].timestamp

ValidRange(input) ==
    /\ TruthyParam(input.startDate) /\ ~NewDate(input.startDate).nan
    /\ TruthyParam(input.endDate) /\ ~NewDate(input.endDate).nan

\* C3: GET /api/food-entries/range with two dates returns exactly the resolved
\* user's entries with startDate <= timestamp <= endDate, newest first: the rows
\* the statement resolved with, and the rows of the response, are those of the
\* table as the statement left it, and the response is 200 unless the
\* connection failed.
C3_RangeIsInclusiveAndOrdered ==
    /\ \A r \in Settled :
          (r.route = "GET /api/food-entries/range" /\ r.stmt = stmts /\ r.outcome.ok)
          => RangeRowsOk(r.input, r.outcome.rows)
    /\ (last.route = "GET /api/food-entries/range" /\ last.status = OkStatus)
       => /\ last.body.kind = "array"
          /\ ValidRange(last.input)
          /\ last.stmt = stmts => RangeRowsOk(last.input, last.body.rows)
    /\ (/\ last.route = "GET /api/food-entries/range"
        /\ ValidRange(last.input)
        /\ ~ConnectionLost(last))
       => last.status = OkStatus

\* C3 witness: a range answer holding an entry on each bound, while the table
\* holds an entry of the user after the interval and another user's inside it
C3_Witness ==
    /\ last.route = "GET /api/food-entries/range"
    /\ last.status = OkStatus
    /\ last.stmt = stmts
    /\ Len(last.body.rows) >= 2
    /\ last.body.rows[1].timestamp = NewDate(last.input.endDate).val
    /\ last.body.rows[Len(last.body.rows)].timestamp = NewDate(last.input.startDate).val
    /\ \E r \in foodEntries :
          r.userId = requireAuth /\ r.timestamp > NewDate(last.input.endDate).val
    /\ \E r \in foodEntries :
          r.userId # requireAuth /\ r.timestamp = NewDate(last.input.endDate).val

\* what a list query with LIMIT count over the present hrv_data table has to return
NewestOk(count, rows) ==
    LET mine == {r \in hrvData : r.userId = requireAuth}
    IN /\ NoDuplicates(rows)
       /\ Range(rows) \subseteq mine
       /\ Len(rows) <= count
       /\ Len(rows) = (IF count < Cardinality(mine) THEN count ELSE Cardinality(mine))
       /\ \A i, j \in 1..Len(rows) : i < j => rows[i].timestamp >= rows[j].timestamp
       /\ \A x \in mine \ Range(rows), y \in Range(rows) : x.timestamp <= y.timestamp

\* a limit parameter that is a count N >= 0
IsCount(limit) ==
    TruthyParam(limit) /\ ~parseInt(limit).nan /\ parseInt(limit).val >= 0

\* C4: GET /api/hrv-data?limit=N, N >= 0 (0 included), answers with at most N
\* records, the N most recent of the resolved user, newest first.
C4_LimitReturnsNewestN ==
    /\ \A r \in Settled :
          (/\ r.route = "GET /api/hrv-data" /\ IsCount(r.input.limit)
           /\ r.stmt = stmts /\ r.outcome.ok)
          => NewestOk(parseInt(r.input.limit).val, r.outcome.rows)
    /\ (/\ last.route = "GET /api/hrv-data" /\ IsCount(last.input.limit)
        /\ last.status = OkStatus)
       => /\ last.body.kind = "array"
          /\ Len(last.body.rows) <= parseInt(last.input.limit).val
          /\ last.stmt = stmts
             => NewestOk(parseInt(last.input.limit).val, last.body.rows)
    /\ (/\ last.route = "GET /api/hrv-data" /\ IsCount(last.input.limit)
        /\ ~ConnectionLost(last))
       => last.status = OkStatus

\* C4 witness: limit=0 answered with no record, then limit=1 answered with the
\* newest one, while the user has several
C4_Witness ==
    /\ before.route = "GET /api/hrv-data"
    /\ before.input.limit = <<"0">>
    /\ before.status = OkStatus
    /\ before.body.rows = <<>>
    /\ last.route = "GET /api/hrv-data"
    /\ last.input.limit = <<"1">>
    /\ last.status = OkStatus
    /\ last.stmt = stmts
    /\ Len(last.body.rows) = 1
    /\ Cardinality({r \in hrvData : r.userId = requireAuth}) >= 2

\* C5: POST /api/analyze-food-image whose body has no base64Image is answered
\* 400 "Base64 image is required" without calling the image-analysis
\* collaborator: no such request ever awaits a call.
C5_MissingImageRejected ==
    /\ (/\ last.route = "POST /api/analyze-food-image"
        /\ last.input.body.base64Image = Undefined)
       => /\ last.status = RejectStatus
          /\ last.body = MessageBody("Base64 image is required")
          /\ last.call = NoCall
    /\ \A r \in inflight :
          r.route = "POST /api/analyze-food-image"
          => r.input.body.base64Image # Undefined

\* C5 witness: an empty body was answered
C5_Witness ==
    /\ last.route = "POST /api/analyze-food-image"
    /\ last.input.body.base64Image = Undefined
    /\ last.status = RejectStatus

NoSuchAppointment(id) ==
    parseInt(id).nan \/ \A r \in appointments : r.id # parseInt(id).val

\* C7 as stated: PATCH /api/appointments/:id/status with an id that matches no
\* appointment row is answered 200 with the success message.
C7_UnknownIdSucceeds ==
    (/\ last.route = "PATCH /api/appointments/:id/status"
     /\ NoSuchAppointment(last.input.id)
     /\ ~ConnectionLost(last))
    => /\ last.status = OkStatus
       /\ last.body = MessageBody("Appointment status updated")

\* the PATCH requests C7 holds of: the id is an integer that matches no row and
\* the status is absent, null or a value of the enum
HarmlessPatch(r) ==
    /\ r.route = "PATCH /api/appointments/:id/status"
    /\ ~parseInt(r.input.id).nan
    /\ NoSuchAppointment(r.input.id)
    /\ r.input.body.status \in appointmentStatusEnum \cup {Undefined, NULL}

\* C7 amended: PATCH /api/appointments/:id/status with an integer id that
\* matches no appointment row and a status that is absent, null or one of the
\* enumerated values: the statement resolves leaving appointments unchanged, and
\* the response is 200 with the success message (unless the connection failed).
C7_UnknownIdChangesNothing ==
    [][/\ \A r \in inflight, r2 \in inflight' :
            (/\ r.phase = "awaiting" /\ HarmlessPatch(r)
             /\ r2.n = r.n /\ r2.phase = "settled"
             /\ r2.outcome.error # Msg("Connection terminated unexpectedly"))
            => r2.outcome.ok /\ appointments' = appointments
       /\ (/\ last'.n # last.n /\ HarmlessPatch(last') /\ ~ConnectionLost(last'))
          => /\ last'.status = OkStatus
             /\ last'.body = MessageBody("Appointment status updated")
             /\ appointments' = appointments]_vars

\* C7 witness: such a PATCH was answered 200 over a table that holds rows
C7_Witness ==
    /\ HarmlessPatch(last)
    /\ last.input.body.status \in appointmentStatusEnum
    /\ last.status = OkStatus
    /\ appointments # {}

\* every accepted request is in flight, unanswered, or was answered once
OneResponseEach ==
    /\ answered + Cardinality(inflight) = nreq
    /\ \A r \in inflight : r.sent = 0 /\ r.n # last.n /\ r.n # before.n
    /\ last.n > 0 => last.sent = 1 /\ last.n # before.n

ErrorShape(resp) ==
    /\ resp.status \in {RejectStatus, CatchStatus}
    /\ resp.body.kind = "message"
    /\ Len(resp.body.message) = 1
    /\ resp.body.rows = <<>>

\* C8 as stated: every request receives exactly one response, which is 200 with
\* a JSON payload or 400/500 with a body {message: string}.
C8_OneResponseOfKnownShape ==
    /\ OneResponseEach
    /\ last.n > 0
       => \/ last.status = OkStatus /\ last.body.kind \in {"object", "array", "message"}
          \/ ErrorShape(last)

\* C8 amended: every request receives exactly one response, which is 200 with a
\* JSON payload, or 200 with an empty body when GET /api/profile finds no
\* profile, or 400/500 with a body {message: string}.
C8_OneResponseJsonOrEmpty ==
    /\ OneResponseEach
    /\ last.n > 0
       => \/ last.status = OkStatus /\ last.body.kind \in {"object", "array", "message"}
          \/ /\ last.status = OkStatus
             /\ last.body.kind = "undefined"
             /\ last.route = "GET /api/profile"
             /\ last.stmt = stmts
                => ~\E r \in userProfiles : r.userId = last.userId
          \/ ErrorShape(last)

\* C8 witness: a handler answered from its catch clause after its storage call
\* rejected
C8_Witness ==
    /\ last.n > 0
    /\ last.call.op \in StorageOps
    /\ last.status = CatchStatus
    /\ last.sent = 1
    /\ inflight = {}

AnalysisRoutes == {"POST /api/analyze-food-image", "POST /api/analyze-food-text"}
FailureTexts == {FailureText(reply) :
                   reply \in ProviderReplies \ {"json", "json_other_shape"}}
ProviderFailed(resp) ==
    resp.route \in AnalysisRoutes /\ resp.call.op \in AnalysisOps /\ resp.logged # <<>>

\* C9 as stated: when the provider call fails, the response is 500 with a
\* message that embeds the underlying failure text.
C9_ResponseEmbedsFailureText ==
    ProviderFailed(last)
    => /\ last.status = CatchStatus
       /\ Range(last.body.message) \cap FailureTexts # {}

\* C9 amended: when the provider call fails, the response is 500 with the
\* route's fixed message; the underlying failure text is in the error the
\* collaborator throws, which the handler logs, and not in the response.
C9_ResponseIsGenericFailureIsLogged ==
    /\ \A r \in Settled :
          r.call.op \in AnalysisOps /\ ~r.outcome.ok
          => Range(r.outcome.error) \cap FailureTexts # {}
    /\ ProviderFailed(last)
       => /\ last.status = CatchStatus
          /\ last.body = MessageBody(CatchMessage(last.route))
          /\ Range(last.logged) \cap FailureTexts # {}
          /\ Range(last.body.message) \cap FailureTexts = {}

\* C9 witness: an image analysis was answered after the provider rate-limited it
C9_Witness ==
    /\ last.route = "POST /api/analyze-food-image"
    /\ last.status = CatchStatus
    /\ FailureText("rate_limit") \in Range(last.logged)

CreateRoutes == {"POST /api/food-entries", "POST /api/hrv-data",
                 "POST /api/appointments", "POST /api/medical-documents",
                 "POST /api/ai-conversations"}
TableOf(route) ==
    CASE route = "POST /api/food-entries" -> foodEntries
      [] route = "POST /api/hrv-data" -> hrvData
      [] route = "POST /api/appointments" -> appointments
      [] route = "POST /api/medical-documents" -> medicalDocuments
      [] route = "POST /api/ai-conversations" -> aiConversations

\* the same POST twice in a row: same route and body, the second arriving after
\* the first was answered, their statements consecutive and the latest executed
SamePostTwice ==
    /\ last.n > 0 /\ before.n > 0
    /\ last.route = before.route
    /\ last.input = before.input
    /\ last.seen = before.n
    /\ last.stmt = before.stmt + 1
    /\ last.stmt = stmts

\* two identical POST /api/profile leave one row with the posted fields
C10_ProfileTwiceLeavesOneRow ==
    (/\ SamePostTwice
     /\ last.route = "POST /api/profile"
     /\ last.call.op = "upsertUserProfile"
     /\ ~ConnectionLost(before) /\ ~ConnectionLost(last))
    => \E r \in userProfiles :
          /\ {x \in userProfiles : x.userId = last.userId} = {r}
          /\ r.age = Col(last.input.body.age)
          /\ r.sex = Col(last.input.body.sex)

\* two identical successful POSTs to a create route leave two distinct rows
C10_CreateTwiceLeavesTwoRows ==
    (/\ SamePostTwice
     /\ last.route \in CreateRoutes
     /\ before.status = OkStatus /\ last.status = OkStatus)
    => /\ before.body.rows[1] # last.body.rows[1]
       /\ before.body.rows[1].id # last.body.rows[1].id
       /\ {before.body.rows[1], last.body.rows[1]} \subseteq TableOf(last.route)

ListRoutes == {"GET /api/food-entries", "GET /api/hrv-data", "GET /api/appointments",
               "GET /api/medical-documents", "GET /api/ai-conversations"}

\* the table a list route reads, the column that names a row's owner and the
\* column the route orders by
ListedTable(route) ==
    CASE route = "GET /api/food-entries" -> foodEntries
      [] route = "GET /api/hrv-data" -> hrvData
      [] route = "GET /api/appointments" -> appointments
      [] route = "GET /api/medical-documents" -> medicalDocuments
      [] route = "GET /api/ai-conversations" -> aiConversations
OwnerOf(route, row) ==
    IF route = "GET /api/appointments" THEN row.patientId ELSE row.userId
SortKeyOf(route, row) ==
    CASE route \in {"GET /api/food-entries", "GET /api/hrv-data"} -> row.timestamp
      [] route = "GET /api/appointments" -> row.appointmentDate
      [] route = "GET /api/medical-documents" -> row.uploadDate
      [] route = "GET /api/ai-conversations" -> row.createdAt

OwnRowsNewestFirst(route, userId, rows) ==
    /\ \A i \in 1..Len(rows) : OwnerOf(route, rows[i]) = userId
    /\ \A i, j \in 1..Len(rows) :
          i < j => SortKeyOf(route, rows[i]) >= SortKeyOf(route, rows[j])

NewestOf(table, count, rows) ==
    LET mine == {r \in table : r.userId = requireAuth}
    IN /\ NoDuplicates(rows)
       /\ Range(rows) \subseteq mine
       /\ Len(rows) = (IF count < Cardinality(mine) THEN count ELSE Cardinality(mine))
       /\ \A i, j \in 1..Len(rows) : i < j => rows[i].timestamp >= rows[j].timestamp
       /\ \A x \in mine \ Range(rows), y \in Range(rows) : x.timestamp <= y.timestamp

DefaultCapOk(route, table, cap) ==
    /\ \A r \in Settled :
          (r.route = route /\ ~TruthyParam(r.input.limit) /\ r.outcome.ok)
          => /\ Len(r.outcome.rows) <= cap
             /\ r.stmt = stmts => NewestOf(table, cap, r.outcome.rows)
    /\ (last.route = route /\ ~TruthyParam(last.input.limit))
       => /\ ~ConnectionLost(last) => last.status = OkStatus
          /\ last.status = OkStatus
             => /\ Len(last.body.rows) <= cap
                /\ last.stmt = stmts => NewestOf(table, cap, last.body.rows)

\* C12: GET /api/food-entries without a limit answers with at most 50 entries,
\* the 50 newest of the resolved user, however many are stored; GET
\* /api/hrv-data without a limit answers with at most 100, the 100 newest.
C12_DefaultCaps ==
    /\ DefaultCapOk("GET /api/food-entries", foodEntries, DefaultFoodLimit)
    /\ DefaultCapOk("GET /api/hrv-data", hrvData, DefaultHRVLimit)

\* C12 witness: the food list without a limit was answered with 50 entries
\* while the user has more than 50
C12_Witness ==
    /\ last.route = "GET /api/food-entries"
    /\ last.input.limit = NoParam
    /\ last.status = OkStatus
    /\ last.stmt = stmts
    /\ Len(last.body.rows) = DefaultFoodLimit
    /\ Cardinality({r \in foodEntries : r.userId = requireAuth}) > DefaultFoodLimit

\* the storage method each route awaits
StorageOpOf(route) ==
    CASE route = "GET /api/profile" -> "getUserProfile"
      [] route = "POST /api/profile" -> "upsertUserProfile"
      [] route = "GET /api/food-entries" -> "getFoodEntries"
      [] route = "POST /api/food-entries" -> "createFoodEntry"
      [] route = "GET /api/food-entries/range" -> "getFoodEntriesByDateRange"
      [] route = "GET /api/hrv-data" -> "getHRVData"
      [] route = "POST /api/hrv-data" -> "createHRVData"
      [] route = "GET /api/appointments" -> "getAppointments"
      [] route = "POST /api/appointments" -> "createAppointment"
      [] route = "PATCH /api/appointments/:id/status" -> "updateAppointmentStatus"
      [] route = "GET /api/medical-documents" -> "getMedicalDocuments"
      [] route = "POST /api/medical-documents" -> "createMedicalDocument"
      [] route = "GET /api/ai-conversations" -> "getAIConversations"
      [] route = "POST /api/ai-conversations" -> "createAIConversation"
      [] OTHER -> "none"

\* whether the handler of request r gets as far as its storage call: not in
\* the analysis routes, not when the schema throws, not when the range route
\* is given no dates
ReachesStorage(r) ==
    CASE r.route \in AnalysisRoutes -> FALSE
      [] r.route = "POST /api/profile" ->
            insertUserProfileSchema(WithUserId(r.input.body, r.userId)).ok
      [] r.route = "POST /api/food-entries" ->
            insertFoodEntrySchema(WithUserId(r.input.body, r.userId)).ok
      [] r.route = "POST /api/appointments" ->
            insertAppointmentSchema(WithPatientId(r.input.body, r.userId)).ok
      [] r.route = "POST /api/medical-documents" ->
            insertMedicalDocumentSchema(WithUserId(r.input.body, r.userId)).ok
      [] r.route = "GET /api/food-entries/range" ->
            TruthyParam(r.input.startDate) /\ TruthyParam(r.input.endDate)
      [] OTHER -> TRUE

\* C13 as stated: every handler, on every request, has called exactly one
\* storage operation when it responds.
C13_ExactlyOneStorageCall ==
    last.n > 0
    => /\ last.call.op = StorageOpOf(last.route)
       /\ last.call.op \in StorageOps
       /\ last.stmt \in 1..stmts

\* C13 amended: every handler calls at most one storage operation before it
\* responds: exactly one (its route's method, one statement) when the request
\* reaches the call, and none in the two analysis routes, when the insert
\* schema rejects the body, or when the range route is given no dates.  A
\* statement is executed only for a request that awaits its one call and has
\* had no statement executed, and a request whose call has settled is
\* answered without another call.
C13_AtMostOneStorageCall ==
    [][/\ last'.n # last.n
          => IF ReachesStorage(last')
             THEN /\ last'.call.op = StorageOpOf(last'.route)
                  /\ last'.stmt \in 1..stmts'
             ELSE /\ last'.call.op \notin StorageOps
                  /\ last'.stmt = 0
       /\ stmts' # stmts
          => /\ stmts' = stmts + 1
             /\ \E r \in inflight :
                   /\ r.phase = "awaiting" /\ r.stmt = 0
                   /\ ReachesStorage(r)
                   /\ r.call.op = StorageOpOf(r.route)
                   /\ \E r2 \in inflight' :
                         r2.n = r.n /\ r2.phase = "settled" /\ r2.stmt = stmts'
                   /\ inflight \ {r} \subseteq inflight'
       /\ \A r \in inflight :
             r.phase = "settled"
             => \/ r \in inflight'
                \/ last'.n = r.n /\ last'.stmt = r.stmt /\ last'.call = r.call]_vars

\* C13 witness: a request was answered 200 after its one storage call, the only
\* statement executed
C13_Witness ==
    /\ last.n > 0
    /\ last.call.op = StorageOpOf(last.route)
    /\ last.status = OkStatus
    /\ last.stmt = 1
    /\ stmts = 1

\* C14: after any sequence of requests the status of every stored appointment
\* is one of scheduled, completed, cancelled, rescheduled, and the statement of
\* a PATCH /api/appointments/:id/status whose body gives a status outside that
\* set leaves the appointments table as it was.
C14_StatusStaysEnumerated ==
    [][/\ \A x \in appointments' : x.status \in appointmentStatusEnum
       /\ \A r \in inflight, r2 \in inflight' :
             (/\ r.route = "PATCH /api/appointments/:id/status"
              /\ r.phase = "awaiting"
              /\ r2.n = r.n /\ r2.phase = "settled"
              /\ r.input.body.status # Undefined
              /\ r.input.body.status \notin appointmentStatusEnum)
             => appointments' = appointments]_vars

\* C15: food entries and HRV records are append-only through the routes: every
\* step of every request leaves each stored row of the two tables in place
\* with all its fields, so the sets of rows only grow.
C15_FoodAndHRVAppendOnly ==
    [][/\ foodEntries \subseteq foodEntries'
       /\ hrvData \subseteq hrvData'
       /\ \A x \in foodEntries' \ foodEntries : \A y \in foodEntries : x.id # y.id
       /\ \A x \in hrvData' \ hrvData : \A y \in hrvData : x.id # y.id]_vars

\* C15 witness: an HRV record was created and answered, and the records stored
\* before are all still there
C15_Witness ==
    /\ last.route = "POST /api/hrv-data"
    /\ last.status = OkStatus
    /\ last.body.rows[1] \in hrvData
    /\ UsedDB.hrvData \subseteq hrvData
    /\ last.body.rows[1] \notin UsedDB.hrvData
    /\ UsedDB.foodEntries = foodEntries

\* the two latest responses answer requests that were in flight together: the
\* later one arrived before the earlier one was answered, both reached the
\* database, and their statements are the two latest executed
AnsweredConcurrently ==
    /\ last.n > 0 /\ before.n > 0
    /\ last.seen = before.seen
    /\ last.call.op \in StorageOps /\ before.call.op \in StorageOps
    /\ {last.stmt, before.stmt} = {stmts - 1, stmts}
    /\ inflight = {}

\* C16: when two POST /api/profile requests of one user are in flight together
\* and both have completed, the profile table holds exactly one row for that
\* user, and its fields are those of one of the two requests.
C16_ConcurrentPostsLeaveOneRow ==
    (/\ AnsweredConcurrently
     /\ last.route = "POST /api/profile" /\ before.route = "POST /api/profile"
     /\ last.userId = before.userId
     /\ ~ConnectionLost(last) /\ ~ConnectionLost(before))
    => \E r \in userProfiles :
          /\ {x \in userProfiles : x.userId = last.userId} = {r}
          /\ \E p \in {last, before} :
                /\ r.age = Col(p.input.body.age)
                /\ r.sex = Col(p.input.body.sex)

\* the rows of a table after a step whose id the table did not hold before it
Stored(old, new) == {x \in new : \A y \in old : y.id # x.id}

\* C17: every row a POST route stores has the resolved user id in its owner
\* column (userId, patientId for appointments), also when the body carries
\* another value for that field, and the row a create route answers with has it.
C17_StoredOwnerIsResolvedUser ==
    [][/\ \A x \in Stored(userProfiles, userProfiles') : x.userId = requireAuth
       /\ \A x \in Stored(foodEntries, foodEntries') : x.userId = requireAuth
       /\ \A x \in Stored(hrvData, hrvData') : x.userId = requireAuth
       /\ \A x \in Stored(appointments, appointments') : x.patientId = requireAuth
       /\ \A x \in Stored(medicalDocuments, medicalDocuments') : x.userId = requireAuth
       /\ \A x \in Stored(aiConversations, aiConversations') : x.userId = requireAuth
       /\ (/\ last'.n # last.n
           /\ last'.route \in CreateRoutes \cup {"POST /api/profile"}
           /\ last'.status = OkStatus)
          => /\ last'.userId = requireAuth
             /\ IF last'.route = "POST /api/appointments"
                THEN last'.body.rows[1].patientId = last'.userId
                ELSE last'.body.rows[1].userId = last'.userId]_vars

\* C17 witness: a food entry posted with another user's id in the body was
\* stored, and answered, under the resolved user id
C17_Witness ==
    /\ last.route = "POST /api/food-entries"
    /\ last.input.body.userId = OtherUserId
    /\ last.status = OkStatus
    /\ last.body.rows[1] \in foodEntries
    /\ last.body.rows[1].userId = requireAuth

\* what the statement of PATCH request r may do to the appointments table
PatchFrame(r) ==
    /\ \A x \in appointments : x.id # r.call.id.val => x \in appointments'
    /\ \A x \in appointments :
          x.id = r.call.id.val
          => \E y \in appointments' :
                /\ y = [x EXCEPT !.status = y.status, !.updatedAt = y.updatedAt]
                /\ y.status = (IF r.input.body.status = Undefined THEN x.status
                               ELSE r.input.body.status)
    /\ {y.id : y \in appointments'} = {x.id : x \in appointments}
    /\ Cardinality(appointments') = Cardinality(appointments)

\* C18: a successful PATCH /api/appointments/:id/status changes only status and
\* updatedAt of the appointment whose id is :id, whoever its patient is; every
\* other appointment, every other field of that one, and every other table
\* stay as they were, in the step that executes its statement and in the step
\* that answers it.
C18_PatchChangesOnlyStatus ==
    [][/\ \A r \in inflight, r2 \in inflight' :
             (/\ r.route = "PATCH /api/appointments/:id/status"
              /\ r.phase = "awaiting"
              /\ r2.n = r.n /\ r2.phase = "settled" /\ r2.outcome.ok)
             => /\ PatchFrame(r)
                /\ UNCHANGED <<userProfiles, foodEntries, hrvData,
                               medicalDocuments, aiConversations, serial>>
       /\ (/\ last'.n # last.n
           /\ last'.route = "PATCH /api/appointments/:id/status")
          => /\ UNCHANGED <<userProfiles, foodEntries, hrvData, appointments,
                            medicalDocuments, aiConversations, serial>>
             /\ last'.status = OkStatus <=> \E r \in inflight : r.n = last'.n /\ r.outcome.ok]_vars

\* C18 witness: the resolved user set another patient's appointment to
\* completed, and the user's own appointment is as it was
C18_Witness ==
    /\ last.route = "PATCH /api/appointments/:id/status"
    /\ last.userId = requireAuth
    /\ last.input.id = <<"2">>
    /\ last.input.body.status = "'completed'"
    /\ last.status = OkStatus
    /\ \E y \in appointments :
          /\ y.id = 2 /\ y.patientId = OtherUserId
          /\ y.status = "'completed'" /\ y.updatedAt > 1
    /\ \E x \in UsedDB.appointments : x.id = 1 /\ x \in appointments

InFlight(n) == \E r \in inflight : r.n = n
AwaitsStorage(n) == \E r \in inflight : r.n = n /\ r.call.op \in StorageOps
AwaitsAnalysis(n) ==
    \E r \in inflight : r.n = n /\ r.call.op \in AnalysisOps /\ r.phase = "awaiting"
Answered(n) == n <= nreq /\ ~InFlight(n)

\* C19: if every AI call eventually returns or fails (every database call
\* does), every accepted request is eventually answered; and, whether or not
\* the AI provider ever answers, every request that waits on the database is
\* eventually answered, also while another request waits on the AI call.
C19_EveryRequestAnswered ==
    /\ WF_vars(AiExecute)
       => \A n \in 1..MaxEntityRequests : (nreq >= n) ~> Answered(n)
    /\ \A n \in 1..MaxEntityRequests : AwaitsStorage(n) ~> Answered(n)

\* C19 witness: a database request that arrived while an analysis request was
\* waiting on the provider has been answered, and the analysis request still waits
C19_Witness ==
    /\ last.n = 2
    /\ last.call.op \in StorageOps
    /\ last.seen = 0
    /\ AwaitsAnalysis(1)

====
